---------------------------- MODULE Spec2Model ----------------------------
(***************************************************************************)
(* State-machine model of the 3D scene viewer (src/src/main.ts) and its    *)
(* device capability probe (src/unnamed/part_000, PerformanceOptimizer).   *)
(*                                                                         *)
(* JavaScript runs each task to completion, so one action is one task: the *)
(* top-level script (constructor and the synchronous prefix of init), the  *)
(* continuation after an await, an event handler, a loader callback, or a  *)
(* requestAnimationFrame callback.                                         *)
(*                                                                         *)
(* Numbers: device pixel ratios are counted in halves (3 = 1.5, 4 = 2.0);  *)
(* time is counted in steps of 30 degrees of the light's orbit, and        *)
(* sines, positions, intensities and colour channels are fixed-point       *)
(* numbers with Scale = 1.0.                                               *)
(***************************************************************************)
EXTENDS Integers, Sequences, FiniteSets

\* ------------------------------------------------------------------ bounds
MaxCores == 4
MaxMemory == 4
MaxDPR == 6
MaxTime == 3
MaxTicks == 3

\* --------------------------------------------------------------- constants
LowEndCoreLimit == 2
LowEndMemoryLimit == 2
LowEndPixelRatioCap == 3
LowEndShadowMapSize == 512
HighEndPixelRatioCap == 4
HighEndShadowMapSize == 2048
Scale == 100000
OrbitRadius == 2
OrbitHeight == 2
StepsPerTurn == 12

VARIABLES
    canvasPresent,        \* document.getElementById('three-canvas') finds it
    navigator,            \* device signals read by PerformanceOptimizer
    innerSize,            \* <<window.innerWidth, window.innerHeight>>
    now,                  \* Date.now() * 0.001, in 30-degree steps
    pc,                   \* where startup stands
    body,                 \* document.body content
    performanceSettings,  \* App.performanceSettings
    camera,               \* App.camera
    renderer,             \* App.renderer
    isWebGPU,             \* App.isWebGPU
    controls,             \* App.controls exists
    scene,                \* App.scene.children, in order of scene.add
    pointLight,           \* App.pointLight
    plane,                \* the ground mesh made by createPlane
    shaderMaterial,       \* App.shaderMaterial
    modelLoad,            \* the GLTF load started by loadBurgerModel
    envLoad,              \* the HDR load started by loadEnvironmentMap
    listener,             \* the resize listener is registered
    pendingFrames,        \* requestAnimationFrame callbacks not yet run
    tickLog,              \* the `time` each run of animate() read
    renders,              \* calls of renderer.render that returned
    console,              \* diagnostics written so far
    uncaught              \* exceptions that escaped to the host

vars ==
    << canvasPresent, navigator, innerSize, now, pc, body, performanceSettings,
       camera, renderer, isWebGPU, controls, scene, pointLight, plane,
       shaderMaterial, modelLoad, envLoad, listener, pendingFrames, tickLog,
       renders, console, uncaught >>

\* ------------------------------------------------- Device Capability Probe
\* A user agent is the sequence of its words; /.../i ignores case.
ToLowerCase(w) ==
    CASE w = "Mozilla" -> "mozilla"
      [] w = "Windows" -> "windows"
      [] w = "Linux" -> "linux"
      [] w = "Android" -> "android"
      [] w = "iPhone" -> "iphone"
      [] w = "IPAD" -> "ipad"
      [] w = "Macintosh" -> "macintosh"
      [] w = "Opera Mini" -> "opera mini"
      [] OTHER -> w

MobilePattern ==
    { "android", "webos", "iphone", "ipad", "ipod", "blackberry", "iemobile",
      "opera mini" }

UserAgents ==
    { <<"Mozilla", "Windows">>, <<"Mozilla", "Macintosh">>,
      <<"Mozilla", "Linux", "Android">>, <<"Mozilla", "Linux", "android">>,
      <<"Mozilla", "iPhone">>, <<"Mozilla", "IPAD">>, <<"opera mini">> }

\* deviceMemory is absent in some browsers: <<>> is undefined, <<n>> is n GB.
AllDevices ==
    [ hardwareConcurrency : 1..MaxCores,
      deviceMemory : {<<>>} \cup { <<m>> : m \in 1..MaxMemory },
      userAgent : UserAgents,
      devicePixelRatio : 1..MaxDPR ]

SampleDevices ==
    { [ hardwareConcurrency |-> LowEndCoreLimit, deviceMemory |-> <<4>>,
        userAgent |-> <<"Mozilla", "Windows">>, devicePixelRatio |-> 2 ],
      [ hardwareConcurrency |-> 4, deviceMemory |-> <<>>,
        userAgent |-> <<"Mozilla", "Macintosh">>, devicePixelRatio |-> 6 ] }

Min(a, b) == IF a <= b THEN a ELSE b

isMobile(nav) ==
    \E i \in 1..Len(nav.userAgent) : ToLowerCase(nav.userAgent[i]) \in MobilePattern

\* `undefined <= 2` is false in JavaScript.
isLowEndDeviceStrict(nav) ==
    \/ nav.hardwareConcurrency < LowEndCoreLimit
    \/ (nav.deviceMemory # <<>> /\ nav.deviceMemory[1] < LowEndMemoryLimit)
    \/ isMobile(nav)

isLowEndDevice(nav) ==
    \/ nav.hardwareConcurrency <= LowEndCoreLimit
    \/ (nav.deviceMemory # <<>> /\ nav.deviceMemory[1] <= LowEndMemoryLimit)
    \/ isMobile(nav)

getOptimalSettings(nav) ==
    IF isLowEndDevice(nav) \/ isMobile(nav)
    THEN [ pixelRatio |-> Min(nav.devicePixelRatio, LowEndPixelRatioCap),
           shadowMapSize |-> LowEndShadowMapSize,
           antialiasing |-> FALSE,
           shadows |-> FALSE,
           fog |-> TRUE,
           postProcessing |-> FALSE ]
    ELSE [ pixelRatio |-> Min(nav.devicePixelRatio, HighEndPixelRatioCap),
           shadowMapSize |-> HighEndShadowMapSize,
           antialiasing |-> TRUE,
           shadows |-> TRUE,
           fog |-> TRUE,
           postProcessing |-> TRUE ]

NoSettings ==
    [ pixelRatio |-> 0, shadowMapSize |-> 0, antialiasing |-> FALSE,
      shadows |-> FALSE, fog |-> FALSE, postProcessing |-> FALSE ]

\* ---------------------------------------------------- Renderer Initializer
WindowSizes == { <<4, 3>>, <<16, 9>> }

NoRenderer ==
    [ kind |-> "none", antialias |-> FALSE, size |-> <<0, 0>>, pixelRatio |-> 0,
      shadowMapEnabled |-> FALSE, shadowMapType |-> "none" ]

\* A renderer as its constructor leaves it: shadow mapping off, hard filter.
NewRenderer(kind, settings) ==
    [ kind |-> kind, antialias |-> settings.antialiasing, size |-> <<0, 0>>,
      pixelRatio |-> 2, shadowMapEnabled |-> FALSE,
      shadowMapType |-> "PCFShadowMap" ]

\* The fields initializeRenderer works on, and how it ended so far:
\* threw is the exception leaving it ("" for none), awaiting says it stands
\* at `await this.renderer.init()`.
RendererState(r, gpu, log) ==
    [ renderer |-> r, isWebGPU |-> gpu, console |-> log, threw |-> "",
      awaiting |-> FALSE ]

initWebGLRenderer(st, settings, glThrows) ==
    IF glThrows
    THEN [ st EXCEPT !.threw = "WebGLRenderer" ]
    ELSE [ st EXCEPT !.renderer = NewRenderer("webgl", settings),
                     !.isWebGPU = FALSE,
                     !.console = @ \cup {"Renderer: WebGL (Fallback)"} ]

\* initializeRenderer up to its await, or to the end of the backend choice.
selectBackend(st, settings, available, ctorThrows, glThrows) ==
    IF available
    THEN LET s1 == [ st EXCEPT !.console = @ \cup {"WebGPU is available"} ]
         IN  IF ctorThrows
             THEN initWebGLRenderer(
                      [ s1 EXCEPT !.console = @ \cup {"WebGPU constructor failed"} ],
                      settings, glThrows)
             ELSE [ s1 EXCEPT !.renderer = NewRenderer("webgpu", settings),
                              !.awaiting = TRUE ]
    ELSE initWebGLRenderer(
             [ st EXCEPT !.console = @ \cup {"WebGPU not available"} ],
             settings, glThrows)

\* initializeRenderer from the settling of renderer.init() to the end of the
\* backend choice.
resumeBackendKeepsGPU(st, settings, rejects, glThrows) ==
    IF rejects
    THEN [ st EXCEPT !.awaiting = FALSE,
                     !.console = @ \cup {"WebGPU init failed"} ]
    ELSE [ st EXCEPT !.awaiting = FALSE,
                     !.isWebGPU = TRUE,
                     !.console = @ \cup {"WebGPU renderer initialized",
                                         "Renderer: WebGPU"} ]

resumeBackend(st, settings, rejects, glThrows) ==
    IF rejects
    THEN initWebGLRenderer(
             [ st EXCEPT !.awaiting = FALSE,
                         !.console = @ \cup {"WebGPU init failed"} ],
             settings, glThrows)
    ELSE [ st EXCEPT !.awaiting = FALSE,
                     !.isWebGPU = TRUE,
                     !.console = @ \cup {"WebGPU renderer initialized",
                                         "Renderer: WebGPU"} ]

\* What the guarded WebGPU shadow configuration can do: run through, throw
\* before shadowMap.enabled is set, or throw between enabled and type.
ShadowConfigOutcomes == { "ok", "throwsBeforeEnabled", "throwsBeforeType" }

\* The shared configuration: size, pixel ratio, shadow mapping.
configureRendererUnguarded(st, settings, size, shadowCfg) ==
    LET r1 == [ st.renderer EXCEPT !.size = size,
                                   !.pixelRatio = settings.pixelRatio ]
        soft == [ r1 EXCEPT !.shadowMapEnabled = TRUE,
                            !.shadowMapType = "PCFSoftShadowMap" ]
    IN  IF ~settings.shadows
        THEN [ st EXCEPT !.renderer = r1 ]
        ELSE IF st.isWebGPU /\ shadowCfg # "ok"
        THEN [ st EXCEPT !.renderer = r1, !.threw = "shadowMap" ]
        ELSE [ st EXCEPT !.renderer = soft ]

configureRenderer(st, settings, size, shadowCfg) ==
    LET r1 == [ st.renderer EXCEPT !.size = size,
                                   !.pixelRatio = settings.pixelRatio ]
        on == [ r1 EXCEPT !.shadowMapEnabled = TRUE ]
        soft == [ on EXCEPT !.shadowMapType = "PCFSoftShadowMap" ]
        failed == "WebGPU shadow configuration failed"
    IN  IF ~settings.shadows
        THEN [ st EXCEPT !.renderer = r1 ]
        ELSE IF st.isWebGPU
        THEN CASE shadowCfg = "ok" -> [ st EXCEPT !.renderer = soft ]
               [] shadowCfg = "throwsBeforeEnabled" ->
                      [ st EXCEPT !.renderer = r1, !.console = @ \cup {failed} ]
               [] shadowCfg = "throwsBeforeType" ->
                      [ st EXCEPT !.renderer = on, !.console = @ \cup {failed} ]
        ELSE [ st EXCEPT !.renderer = soft ]

\* initializeRenderer from its call to its first suspension or its end.
initializeRenderer(st, settings, size, available, ctorThrows, glThrows, shadowCfg) ==
    LET sel == selectBackend(st, settings, available, ctorThrows, glThrows)
    IN  IF sel.threw # "" \/ sel.awaiting
        THEN sel
        ELSE configureRenderer(sel, settings, size, shadowCfg)

\* initializeRenderer from the settling of renderer.init() to its end.
resumeInitializeRenderer(st, settings, size, rejects, glThrows, shadowCfg) ==
    LET sel == resumeBackend(st, settings, rejects, glThrows)
    IN  IF sel.threw # ""
        THEN sel
        ELSE configureRenderer(sel, settings, size, shadowCfg)

\* Which state of startup the rest of init waits for: `await
\* this.initializeRenderer(canvas)` resumes once the renderer is chosen and
\* configured.
RendererNotAwaited(p) == p \in {"rendererReady", "awaitGPUInit"}

RendererSettled(p) == p = "rendererReady"

\* Where init stands after a run of initializeRenderer.
Settle(st) ==
    IF st.threw # "" THEN "initRejected"
    ELSE IF st.awaiting THEN "awaitGPUInit"
    ELSE "rendererReady"

\* ----------------------------------------------------------- Scene Composer
NoLight ==
    [ exists |-> FALSE, castShadow |-> FALSE, position |-> <<0, 0, 0>>,
      mapSize |-> 0, normalBias |-> 0, bias |-> 0 ]

NoPlane == [ exists |-> FALSE, receiveShadow |-> FALSE, castShadow |-> FALSE ]

NoMaterial ==
    [ type |-> "none", uniformsTime |-> <<>>, emissiveIntensity |-> 0,
      color |-> <<0, 0, 0>> ]

\* 0xff6b6b
BaseColor == << Scale, 41961, 41961 >>

\* A PointLight as constructed: no shadow, a 512 shadow map, no bias.
setupLightingAlwaysCasts(children, settings, gpu) ==
    [ scene |-> children \o << "AmbientLight", "PointLight" >>,
      pointLight |->
          [ exists |-> TRUE, castShadow |-> TRUE,
            position |-> << 5 * Scale, 5 * Scale, 5 * Scale >>,
            mapSize |-> settings.shadowMapSize,
            normalBias |-> IF gpu THEN 200 ELSE 100,
            bias |-> IF gpu THEN -100 ELSE -500 ] ]

setupLighting(children, settings, gpu) ==
    LET fresh == [ exists |-> TRUE, castShadow |-> FALSE,
                   position |-> << 5 * Scale, 5 * Scale, 5 * Scale >>,
                   mapSize |-> 512, normalBias |-> 0, bias |-> 0 ]
        casting == [ fresh EXCEPT !.castShadow = TRUE,
                                  !.mapSize = settings.shadowMapSize,
                                  !.normalBias = IF gpu THEN 200 ELSE 100,
                                  !.bias = IF gpu THEN -100 ELSE -500 ]
    IN  [ scene |-> children \o << "AmbientLight", "PointLight" >>,
          pointLight |-> IF settings.shadows THEN casting ELSE fresh ]

createPlane(children, settings) ==
    [ scene |-> Append(children, "plane"),
      plane |-> [ exists |-> TRUE, receiveShadow |-> TRUE, castShadow |-> TRUE ] ]

createShaderCube(children, gpu, shaderThrows) ==
    LET native == [ type |-> "MeshStandardMaterial", uniformsTime |-> <<>>,
                    emissiveIntensity |-> (3 * Scale) \div 10,
                    color |-> BaseColor ]
        raw == [ type |-> "RawShaderMaterial", uniformsTime |-> <<0>>,
                 emissiveIntensity |-> 0, color |-> BaseColor ]
        fallback == [ native EXCEPT !.emissiveIntensity = (2 * Scale) \div 10 ]
    IN  [ scene |-> Append(children, "cube"),
          shaderMaterial |-> IF gpu THEN native
                             ELSE IF shaderThrows THEN fallback
                             ELSE raw,
          console |-> IF ~gpu /\ shaderThrows
                      THEN {"Raw shader material failed"} ELSE {} ]

\* The callbacks of loader.load in loadBurgerModel.
onModelLoadedTwice(children) == children \o << "model", "model" >>

onModelLoaded(children) == Append(children, "model")

onModelError(children) == children

\* -------------------------------------------------------------- Frame Driver
SinTable ==
    << 0, 50000, 86600, 100000, 86600, 50000,
       0, -50000, -86600, -100000, -86600, -50000 >>

Sin(k) == SinTable[(k % StepsPerTurn) + 1]

Cos(k) == Sin(k + (StepsPerTurn \div 4))

orbit(t) == << Cos(t) * OrbitRadius, OrbitHeight * Scale, Sin(t) * OrbitRadius >>

emissiveAt(t) ==
    LET wave == (Sin(3 * t) \div 2) + (Scale \div 2)
    IN  ((2 * Scale) \div 10) + ((wave * 4) \div 10)

colorAt(t) ==
    LET colorWave == ((Sin(2 * t) * 3) \div 10) + ((7 * Scale) \div 10)
    IN  << colorWave, (colorWave * 4) \div 10, (colorWave * 4) \div 10 >>

\* The material update of animate().
updateMaterialAccumulates(m, gpu, t) ==
    IF m.type = "none" THEN m
    ELSE IF gpu /\ m.type = "MeshStandardMaterial"
    THEN [ m EXCEPT !.emissiveIntensity = (@ + emissiveAt(t)) % (2 * Scale),
                    !.color = colorAt(t) ]
    ELSE IF ~gpu /\ m.type = "RawShaderMaterial" /\ m.uniformsTime # <<>>
    THEN [ m EXCEPT !.uniformsTime = << @[1] + t + 1 >> ]
    ELSE m

updateMaterialSkipsUniform(m, gpu, t) ==
    IF m.type = "none" THEN m
    ELSE IF gpu /\ m.type = "MeshStandardMaterial"
    THEN [ m EXCEPT !.emissiveIntensity = emissiveAt(t),
                    !.color = colorAt(t) ]
    ELSE m

updateMaterial(m, gpu, t) ==
    IF m.type = "none" THEN m
    ELSE IF gpu /\ m.type = "MeshStandardMaterial"
    THEN [ m EXCEPT !.emissiveIntensity = emissiveAt(t),
                    !.color = colorAt(t) ]
    ELSE IF ~gpu /\ m.type = "RawShaderMaterial"
    THEN IF m.uniformsTime # <<>>
         THEN [ m EXCEPT !.uniformsTime = << t >> ]
         ELSE m
    ELSE m

\* What the body of a frame can do after the material update: run through,
\* or throw from controls.update() or from renderer.render().
TickOutcomes == { "ok", "controlsThrows", "renderThrows" }

\* One run of animate(): the frames it requests, the light and the material
\* it leaves, the render calls that returned, the exception leaving it.
animateSchedulesLast(light, m, gpu, t, outcome) ==
    [ scheduled |-> IF outcome = "ok" THEN 1 ELSE 0,
      pointLight |-> [ light EXCEPT !.position = orbit(t) ],
      shaderMaterial |-> updateMaterial(m, gpu, t),
      rendered |-> IF outcome = "ok" THEN 1 ELSE 0,
      threw |-> IF outcome = "ok" THEN "" ELSE outcome ]

animate(light, m, gpu, t, outcome) ==
    [ scheduled |-> 1,
      pointLight |-> [ light EXCEPT !.position = orbit(t) ],
      shaderMaterial |-> updateMaterial(m, gpu, t),
      rendered |-> IF outcome = "ok" THEN 1 ELSE 0,
      threw |-> IF outcome = "ok" THEN "" ELSE outcome ]

onWindowResize(cam, r, size) ==
    [ camera |-> [ cam EXCEPT !.aspect = size ],
      renderer |-> [ r EXCEPT !.size = size ] ]

\* ------------------------------------------------------------ initial state
NoCamera == [ exists |-> FALSE, aspect |-> <<0, 0>> ]

FailureMessage ==
    "Failed to initialize WebGL/WebGPU renderer. Please check browser compatibility."

InitApp ==
    /\ canvasPresent \in BOOLEAN
    /\ innerSize \in WindowSizes
    /\ now = 0
    /\ pc = "boot"
    /\ body = "page"
    /\ performanceSettings = NoSettings
    /\ camera = NoCamera
    /\ renderer = NoRenderer
    /\ isWebGPU = FALSE
    /\ controls = FALSE
    /\ scene = << >>
    /\ pointLight = NoLight
    /\ plane = NoPlane
    /\ shaderMaterial = NoMaterial
    /\ modelLoad = "idle"
    /\ envLoad = "idle"
    /\ listener = FALSE
    /\ pendingFrames = 0
    /\ tickLog = << >>
    /\ renders = 0
    /\ console = {}
    /\ uncaught = {}

Init == InitApp /\ navigator \in SampleDevices

InitProbe == InitApp /\ navigator \in AllDevices

\* ------------------------------------------------------------------ actions
CanvasFoundAnyway(present) == TRUE

CanvasFound(present) == present

\* The top-level script: `new App()` inside try/catch. The constructor runs
\* init up to its first suspension.
TopLevelInitializer ==
    /\ pc = "boot"
    /\ IF ~CanvasFound(canvasPresent)
       THEN /\ pc' = "failed"
            /\ body' = FailureMessage
            /\ console' = console \cup {"Failed to initialize app"}
            /\ UNCHANGED << performanceSettings, camera, renderer, isWebGPU,
                            uncaught >>
       ELSE \E available, ctorThrows, glThrows \in BOOLEAN,
               shadowCfg \in ShadowConfigOutcomes :
                LET settings == getOptimalSettings(navigator)
                    st == initializeRenderer(
                              RendererState(renderer, isWebGPU,
                                            console \cup {"Device Info"}),
                              settings, innerSize, available, ctorThrows,
                              glThrows, shadowCfg)
                IN  /\ performanceSettings' = settings
                    /\ camera' = [ exists |-> TRUE, aspect |-> innerSize ]
                    /\ renderer' = st.renderer
                    /\ isWebGPU' = st.isWebGPU
                    /\ console' = st.console \cup {"App initialization started..."}
                    /\ uncaught' = IF st.threw # "" THEN uncaught \cup {st.threw}
                                   ELSE uncaught
                    /\ pc' = Settle(st)
                    /\ body' = body
    /\ UNCHANGED << canvasPresent, navigator, innerSize, now, controls, scene,
                    pointLight, plane, shaderMaterial, modelLoad, envLoad,
                    listener, pendingFrames, tickLog, renders >>

\* renderer.init() settles and initializeRenderer runs to its end.
RendererInitSettles ==
    /\ pc = "awaitGPUInit"
    /\ \E rejects, glThrows \in BOOLEAN, shadowCfg \in ShadowConfigOutcomes :
           LET st == resumeInitializeRenderer(
                         [ RendererState(renderer, isWebGPU, console)
                               EXCEPT !.awaiting = TRUE ],
                         performanceSettings, innerSize, rejects, glThrows,
                         shadowCfg)
           IN  /\ renderer' = st.renderer
               /\ isWebGPU' = st.isWebGPU
               /\ console' = st.console
               /\ uncaught' = IF st.threw # "" THEN uncaught \cup {st.threw}
                              ELSE uncaught
               /\ pc' = Settle(st)
    /\ UNCHANGED << canvasPresent, navigator, innerSize, now, body,
                    performanceSettings, camera, controls, scene, pointLight,
                    plane, shaderMaterial, modelLoad, envLoad, listener,
                    pendingFrames, tickLog, renders >>

\* The rest of init: controls, loaders, scene, resize listener, first frame.
InitContinues ==
    /\ RendererSettled(pc)
    /\ \E shaderThrows \in BOOLEAN, outcome \in TickOutcomes :
           LET lit == setupLighting(scene, performanceSettings, isWebGPU)
               ground == createPlane(lit.scene, performanceSettings)
               cube == createShaderCube(ground.scene, isWebGPU, shaderThrows)
               frame == animate(lit.pointLight, cube.shaderMaterial, isWebGPU,
                                now, outcome)
           IN  /\ controls' = TRUE
               /\ envLoad' = "pending"
               /\ scene' = cube.scene
               /\ plane' = ground.plane
               /\ modelLoad' = "pending"
               /\ listener' = TRUE
               /\ pendingFrames' = pendingFrames + frame.scheduled
               /\ pointLight' = frame.pointLight
               /\ shaderMaterial' = frame.shaderMaterial
               /\ tickLog' = Append(tickLog, now)
               /\ renders' = renders + frame.rendered
               /\ console' = console \cup cube.console
               /\ uncaught' = IF frame.threw # "" THEN uncaught \cup {frame.threw}
                              ELSE uncaught
    /\ pc' = "running"
    /\ UNCHANGED << canvasPresent, navigator, innerSize, now, body,
                    performanceSettings, camera, renderer, isWebGPU >>

\* A requestAnimationFrame callback runs animate().
FrameTick ==
    /\ pc = "running"
    /\ pendingFrames > 0
    /\ Len(tickLog) < MaxTicks
    /\ \E outcome \in TickOutcomes :
           LET frame == animate(pointLight, shaderMaterial, isWebGPU, now, outcome)
           IN  /\ pendingFrames' = (pendingFrames - 1) + frame.scheduled
               /\ pointLight' = frame.pointLight
               /\ shaderMaterial' = frame.shaderMaterial
               /\ tickLog' = Append(tickLog, now)
               /\ renders' = renders + frame.rendered
               /\ uncaught' = IF frame.threw # "" THEN uncaught \cup {frame.threw}
                              ELSE uncaught
    /\ UNCHANGED << canvasPresent, navigator, innerSize, now, pc, body,
                    performanceSettings, camera, renderer, isWebGPU, controls,
                    scene, plane, modelLoad, envLoad, listener, console >>

\* The window changes size; the handler runs if it is registered. No event
\* is delivered between the end of initializeRenderer and the rest of init.
WindowResizes ==
    /\ pc # "rendererReady"
    /\ \E size \in WindowSizes \ {innerSize} :
           /\ innerSize' = size
           /\ IF listener
              THEN LET r == onWindowResize(camera, renderer, size)
                   IN  camera' = r.camera /\ renderer' = r.renderer
              ELSE UNCHANGED << camera, renderer >>
    /\ UNCHANGED << canvasPresent, navigator, now, pc, body, performanceSettings,
                    isWebGPU, controls, scene, pointLight, plane, shaderMaterial,
                    modelLoad, envLoad, listener, pendingFrames, tickLog,
                    renders, console, uncaught >>

ClockAdvances ==
    /\ now < MaxTime
    /\ now' = now + 1
    /\ UNCHANGED << canvasPresent, navigator, innerSize, pc, body,
                    performanceSettings, camera, renderer, isWebGPU, controls,
                    scene, pointLight, plane, shaderMaterial, modelLoad, envLoad,
                    listener, pendingFrames, tickLog, renders, console, uncaught >>

ModelLoads ==
    /\ modelLoad = "pending"
    /\ modelLoad' = "loaded"
    /\ scene' = onModelLoaded(scene)
    /\ console' = console \cup {"Burger model loaded successfully!"}
    /\ UNCHANGED << canvasPresent, navigator, innerSize, now, pc, body,
                    performanceSettings, camera, renderer, isWebGPU, controls,
                    pointLight, plane, shaderMaterial, envLoad, listener,
                    pendingFrames, tickLog, renders, uncaught >>

ModelLoadFails ==
    /\ modelLoad = "pending"
    /\ modelLoad' = "failed"
    /\ scene' = onModelError(scene)
    /\ console' = console \cup {"Error loading model"}
    /\ UNCHANGED << canvasPresent, navigator, innerSize, now, pc, body,
                    performanceSettings, camera, renderer, isWebGPU, controls,
                    pointLight, plane, shaderMaterial, envLoad, listener,
                    pendingFrames, tickLog, renders, uncaught >>

\* The HDR load settles; on success scene.environment is set, which adds no
\* node.
EnvironmentSettles ==
    /\ envLoad = "pending"
    /\ envLoad' \in {"loaded", "failed"}
    /\ UNCHANGED << canvasPresent, navigator, innerSize, now, pc, body,
                    performanceSettings, camera, renderer, isWebGPU, controls,
                    scene, pointLight, plane, shaderMaterial, modelLoad,
                    listener, pendingFrames, tickLog, renders, console, uncaught >>

Next ==
    \/ TopLevelInitializer
    \/ RendererInitSettles
    \/ InitContinues
    \/ FrameTick
    \/ WindowResizes
    \/ ClockAdvances
    \/ ModelLoads
    \/ ModelLoadFails
    \/ EnvironmentSettles

Spec == Init /\ [][Next]_vars

\* The probe alone, over every device.
Probe ==
    /\ pc = "boot"
    /\ pc' = "probed"
    /\ performanceSettings' = getOptimalSettings(navigator)
    /\ UNCHANGED << canvasPresent, navigator, innerSize, now, body, camera,
                    renderer, isWebGPU, controls, scene, pointLight, plane,
                    shaderMaterial, modelLoad, envLoad, listener, pendingFrames,
                    tickLog, renders, console, uncaught >>

NextProbe == Probe

SpecProbe == InitProbe /\ [][NextProbe]_vars

\* ------------------------------------------------------------------- claims
Last(q) == q[Len(q)]

Count(kind) == Cardinality({ i \in 1..Len(scene) : scene[i] = kind })

PrimaryFailed ==
    { "WebGPU not available", "WebGPU constructor failed", "WebGPU init failed" }

RendererResolved == pc \in {"rendererReady", "running"}

\* C1: once initializeRenderer has resolved, the renderer and isWebGPU agree
\* and follow the primary backend: WebGPU unavailable, its constructor
\* throwing or its init() rejecting give the WebGL renderer with isWebGPU
\* false; the WebGPU renderer with isWebGPU true is only there when WebGPU
\* was available and construction and init() both succeeded.
C1_RendererFollowsPrimaryOutcome ==
    RendererResolved =>
        /\ renderer.kind \in {"webgpu", "webgl"}
        /\ isWebGPU <=> (renderer.kind = "webgpu")
        /\ (console \cap PrimaryFailed # {}) => (renderer.kind = "webgl" /\ ~isWebGPU)
        /\ (renderer.kind = "webgpu") =>
               /\ {"WebGPU is available", "WebGPU renderer initialized"} \subseteq console
               /\ console \cap PrimaryFailed = {}

C1_Witness ==
    /\ pc = "rendererReady"
    /\ "WebGPU init failed" \in console
    /\ renderer.kind = "webgl"
    /\ ~isWebGPU

C3_ProfileFollowsThresholds ==
    pc = "probed" =>
        LET lowEnd == \/ navigator.hardwareConcurrency <= 2
                      \/ \E m \in 1..2 : navigator.deviceMemory = <<m>>
                      \/ isMobile(navigator)
            dpr == navigator.devicePixelRatio
        IN  IF lowEnd
            THEN performanceSettings =
                     [ pixelRatio |-> IF dpr < 3 THEN dpr ELSE 3,
                       shadowMapSize |-> 512, antialiasing |-> FALSE,
                       shadows |-> FALSE, fog |-> TRUE, postProcessing |-> FALSE ]
            ELSE performanceSettings =
                     [ pixelRatio |-> IF dpr < 4 THEN dpr ELSE 4,
                       shadowMapSize |-> 2048, antialiasing |-> TRUE,
                       shadows |-> TRUE, fog |-> TRUE, postProcessing |-> TRUE ]

C3_Witness ==
    /\ pc = "probed"
    /\ navigator.deviceMemory = << >>
    /\ navigator.hardwareConcurrency = 3
    /\ navigator.devicePixelRatio = 6
    /\ ~isMobile(navigator)
    /\ performanceSettings.shadows
    /\ performanceSettings.pixelRatio = 4

\* C4: with the canvas absent, construction throws, the top-level catch
\* replaces the body with the failure message, and no renderer, no scene
\* node and no frame ever exist.
C4_MissingCanvasFailsFast ==
    (~canvasPresent /\ pc # "boot") =>
        /\ pc = "failed"
        /\ body = FailureMessage
        /\ renderer = NoRenderer
        /\ camera = NoCamera
        /\ scene = << >>
        /\ ~controls
        /\ pendingFrames = 0
        /\ tickLog = << >>
        /\ renders = 0

C4_Witness ==
    /\ ~canvasPresent
    /\ pc = "failed"
    /\ body = FailureMessage
    /\ now > 0

\* C5: once the scene is composed it holds exactly one ambient light, one
\* point light, one ground and one cube at every later moment; the model's
\* root is in it, once, exactly when the model load succeeded; a failed load
\* leaves it out and lets no exception escape.
C5_SceneCensus ==
    pc = "running" =>
        /\ Count("AmbientLight") = 1
        /\ Count("PointLight") = 1
        /\ Count("plane") = 1
        /\ Count("cube") = 1
        /\ Count("model") = IF modelLoad = "loaded" THEN 1 ELSE 0
        /\ Len(scene) = 4 + Count("model")
        /\ uncaught \subseteq TickOutcomes

C5_Witness ==
    /\ pc = "running"
    /\ modelLoad = "failed"
    /\ Len(tickLog) >= 2
    /\ Count("model") = 0

\* C6: a frame that reads the same time as the frame before it leaves the
\* light position and the material as that frame left them.
C6_TickIdempotent ==
    [][ ( /\ tickLog # << >>
          /\ Len(tickLog') = Len(tickLog) + 1
          /\ Last(tickLog') = Last(tickLog) )
        => ( /\ pointLight'.position = pointLight.position
             /\ shaderMaterial' = shaderMaterial ) ]_vars

C6_Witness ==
    /\ Len(tickLog) >= 2
    /\ tickLog[Len(tickLog)] = tickLog[Len(tickLog) - 1]
    /\ Last(tickLog) > 0
    /\ isWebGPU
    /\ shaderMaterial.emissiveIntensity = emissiveAt(Last(tickLog))

\* C7 as stated: after every frame the material shows that frame's time,
\* whichever material the scene was built with: the time uniform on a shader
\* material, emissive intensity and colour on a native one.
C7_EveryMaterialAnimated ==
    tickLog # << >> =>
        /\ shaderMaterial.type = "RawShaderMaterial" =>
               shaderMaterial.uniformsTime = << Last(tickLog) >>
        /\ shaderMaterial.type = "MeshStandardMaterial" =>
               /\ shaderMaterial.emissiveIntensity = emissiveAt(Last(tickLog))
               /\ shaderMaterial.color = colorAt(Last(tickLog))

\* C7 amended: after every frame the shader material on WebGL has its time
\* uniform at that frame's time and the native material on WebGPU has its
\* emissive intensity and colour at that frame's values; the non-shader
\* material substituted on WebGL is never touched by a frame.
C7_AnimatedExceptWebGLFallback ==
    tickLog # << >> =>
        /\ shaderMaterial.type \in {"RawShaderMaterial", "MeshStandardMaterial"}
        /\ isWebGPU => shaderMaterial.type = "MeshStandardMaterial"
        /\ shaderMaterial.type = "RawShaderMaterial" =>
               shaderMaterial.uniformsTime = << Last(tickLog) >>
        /\ (isWebGPU /\ shaderMaterial.type = "MeshStandardMaterial") =>
               /\ shaderMaterial.emissiveIntensity = emissiveAt(Last(tickLog))
               /\ shaderMaterial.color = colorAt(Last(tickLog))
        /\ (~isWebGPU /\ shaderMaterial.type = "MeshStandardMaterial") =>
               /\ shaderMaterial.emissiveIntensity = 20000
               /\ shaderMaterial.color = BaseColor
               /\ "Raw shader material failed" \in console

C7_Witness ==
    /\ Len(tickLog) >= 2
    /\ Last(tickLog) > 0
    /\ ~isWebGPU
    /\ shaderMaterial.type = "MeshStandardMaterial"
    /\ shaderMaterial.color # colorAt(Last(tickLog))

\* C8: nothing is added to the scene and no controls exist before
\* initializeRenderer has resolved; no frame runs and nothing is rendered
\* before renderer, controls, point light and cube exist; frames do not
\* wait for the asset loads.
C8_StartupOrdered ==
    /\ (scene # << >> \/ controls \/ listener \/ modelLoad # "idle"
            \/ envLoad # "idle") =>
           /\ pc = "running"
           /\ renderer.kind \in {"webgpu", "webgl"}
           /\ renderer.size # << 0, 0 >>
           /\ console \cap (PrimaryFailed \cup {"WebGPU renderer initialized"}) # {}
    /\ (tickLog # << >> \/ renders > 0 \/ pendingFrames > 0) =>
           /\ renderer.kind \in {"webgpu", "webgl"}
           /\ controls
           /\ pointLight.exists
           /\ Count("PointLight") = 1
           /\ Count("cube") = 1
           /\ shaderMaterial.type # "none"

C8_Witness ==
    /\ Len(tickLog) >= 3
    /\ renders >= 3
    /\ modelLoad = "pending"
    /\ envLoad = "loaded"

\* C9 as stated: renderer shadow mapping with soft filtering, the point
\* light's castShadow and the ground's receiveShadow and castShadow are on
\* when the profile has shadows and off when it has not.
C9_ShadowsFollowProfile ==
    pc = "running" =>
        /\ renderer.shadowMapEnabled = performanceSettings.shadows
        /\ (renderer.shadowMapType = "PCFSoftShadowMap") = performanceSettings.shadows
        /\ pointLight.castShadow = performanceSettings.shadows
        /\ plane.receiveShadow = performanceSettings.shadows
        /\ plane.castShadow = performanceSettings.shadows

\* C9 amended: the point light's castShadow follows the profile on both
\* backends; renderer shadow mapping is off without profile shadows and on
\* with soft filtering with them, unless the guarded WebGPU configuration
\* threw, which is logged and leaves it as it was at the throw; the ground's
\* receiveShadow and castShadow are on whatever the profile says.
C9_ShadowsFollowProfileExceptGround ==
    pc = "running" =>
        /\ pointLight.castShadow = performanceSettings.shadows
        /\ plane.receiveShadow /\ plane.castShadow
        /\ ~performanceSettings.shadows =>
               /\ ~renderer.shadowMapEnabled
               /\ renderer.shadowMapType # "PCFSoftShadowMap"
        /\ ( /\ performanceSettings.shadows
             /\ "WebGPU shadow configuration failed" \notin console ) =>
               /\ renderer.shadowMapEnabled
               /\ renderer.shadowMapType = "PCFSoftShadowMap"
        /\ "WebGPU shadow configuration failed" \in console =>
               /\ isWebGPU /\ performanceSettings.shadows
               /\ renderer.shadowMapType # "PCFSoftShadowMap"

C9_Witness ==
    /\ pc = "running"
    /\ ~performanceSettings.shadows
    /\ plane.receiveShadow
    /\ plane.castShadow
    /\ ~pointLight.castShadow
    /\ ~renderer.shadowMapEnabled

\* C10: from the start of the loop on, exactly one frame callback is
\* pending at every moment; every frame requests exactly one successor and
\* renders at most once, also when its body throws, and resizes and load
\* callbacks neither stop nor duplicate the loop.
C10_SingleLoop ==
    [][ /\ pendingFrames' = IF pc' = "running" THEN 1 ELSE 0
        /\ tickLog' # tickLog =>
               /\ Len(tickLog') = Len(tickLog) + 1
               /\ renders' - renders \in {0, 1}
               /\ pendingFrames' = 1
        /\ tickLog' = tickLog =>
               /\ pendingFrames' = pendingFrames
               /\ renders' = renders ]_vars

C10_Witness ==
    /\ pc = "running"
    /\ Len(tickLog) >= 3
    /\ "renderThrows" \in uncaught
    /\ "controlsThrows" \in uncaught
    /\ renders = 1
    /\ pendingFrames = 1
    /\ modelLoad = "loaded"

\* Two aspect ratios, each kept as <<width, height>>, are the same ratio.
SameAspect(a, b) == a[1] * b[2] = a[2] * b[1]

\* C11: once a frame has been rendered, the camera's aspect ratio is that of
\* the window and the renderer's output size is the window's size, whenever
\* the window was resized, also between construction and the end of the
\* awaited renderer initialization, before the resize listener is there.
C11_RenderedViewMatchesWindow ==
    (pc = "running" /\ renders > 0) =>
        /\ SameAspect(camera.aspect, innerSize)
        /\ renderer.size = innerSize

=============================================================================
